---- MODULE Spec2Model ----
(***************************************************************************)
(* The logging server of nadu-festival/loggingserver.                      *)
(*                                                                         *)
(*   LoggingServer (a process): binds a listening socket, accepts          *)
(*   connections, starts one LoggingWorkerThread per connection, reaps     *)
(*   finished workers, and on shutdown drains / force-stops / joins them.  *)
(*                                                                         *)
(*   LoggingWorkerThread (a thread): reads frames (4-byte big-endian       *)
(*   length, then that many payload bytes) with a polling read, unpickles  *)
(*   each payload into a LogRecord and hands it to the logger.             *)
(*                                                                         *)
(* The peers (clients) and the caller of shutdown() are the environment.   *)
(* Every step of the listener and of a worker that reads or writes state   *)
(* another thread can see is an action of its own.                         *)
(***************************************************************************)
EXTENDS Integers, Sequences, FiniteSets, TLC

(* ------------------------------ bounds -------------------------------- *)

\* Connections that may ever be opened.
NumConns == 2
\* Spec: frames one peer may send, and the longest payload of such a frame.
SrvFrames == 1
SrvLen == 1
\* ConnSpec (one connection): frames the peer may send, longest payload.
MaxFrames == 2
MaxLen == 2

Conns == 1..NumConns

(* --------------------------- the wire format --------------------------- *)

\* struct '>L': four bytes, most significant first.
LenBytes == 4

Pack(n) ==
    << (n \div 16777216) % 256, (n \div 65536) % 256, (n \div 256) % 256, n % 256 >>

\* The big-endian value of a byte string; run() unpacks four bytes.
RECURSIVE Unpack(_)
Unpack(b) ==
    IF b = <<>> THEN 0
    ELSE Unpack(SubSeq(b, 1, Len(b) - 1)) * 256 + b[Len(b)]

\* A first payload byte that pickle.loads does not accept; every other
\* byte value stands for the start of a well-formed pickle.
BadOp == 0

\* The payloads peer c sends: the empty one, and those of its own byte c
\* whose first byte is either c or BadOp.
RECURSIVE Repeat(_, _)
Repeat(b, n) == IF n = 0 THEN <<>> ELSE <<b>> \o Repeat(b, n - 1)

Payloads(c, maxLen) ==
    {<<>>} \cup {<<b>> \o Repeat(c, n - 1) : b \in {BadOp, c}, n \in 1..maxLen}

\* pickle.loads(data) raises on the empty string and on a bad first opcode.
Unpicklable(data) == data # <<>> /\ data[1] # BadOp

\* logging.makeLogRecord(pickle.loads(data)): the record's name and message.
makeLogRecord(data) == [name |-> data[1], msg |-> Tail(data)]

NoRecord == [name |-> BadOp, msg |-> <<>>]

(* ------------------------------- state --------------------------------- *)

VARIABLES
    \* LoggingServer
    spc,                   \* where run() is: "init", "loop", "poll", "reap",
                           \* "drain", "join", "done", "failed"
    shutdown_event,        \* self._shutdown_event
    force_shutdown_event,  \* self._force_shutdown_event
    workers,               \* run()'s list of LoggingWorkerThread
    backlog,               \* connections the listening socket has not accepted
    late,                  \* was shutdown() called before connection c was accepted
    \* the connection of peer c
    peer,                  \* "idle", "open", "closed", "reset"
    pending,               \* bytes of the current frame the peer has yet to send
    wire,                  \* bytes sent and not yet received
    framed,                \* payloads of the frames the peer has begun, in order
    \* LoggingWorkerThread of connection c
    wpc,                   \* "none", "loop", "recv", "select", "deser", "handle",
                           \* "shutdown", "done", "raised"
    w_force_shutdown,      \* self._force_shutdown
    phase,                 \* which _recv_chunk call is running: "len", "payload"
    chunk_size,            \* _recv_chunk's chunk_size
    chunk,                 \* _recv_chunk's chunk
    pickled_log,           \* run()'s pickled_log
    record,                \* run()'s record
    sockOps,               \* what was done to self._socket: "shutdown", "close"
    attempts,              \* payloads given to _makeLogRecord, in order
    dispatched,            \* records given to _handleLogRecord, in order
    iter_forced            \* was self._force_shutdown set when the current
                           \* iteration of run()'s loop began

srvVars == <<spc, shutdown_event, force_shutdown_event, workers, backlog, late>>
peerVars == <<peer, pending, wire, framed>>
wkVars == <<wpc, w_force_shutdown, phase, chunk_size, chunk, pickled_log, record,
            sockOps, attempts, dispatched, iter_forced>>
vars == <<srvVars, peerVars, wkVars>>

Min(a, b) == IF a < b THEN a ELSE b

Terminated(c) == wpc[c] \in {"done", "raised"}

\* Thread.is_alive()
is_alive(c) == wpc[c] \notin {"none", "done", "raised"}

Init ==
    /\ spc = "init"
    /\ shutdown_event = FALSE
    /\ force_shutdown_event = FALSE
    /\ workers = <<>>
    /\ backlog = <<>>
    /\ late = [c \in Conns |-> FALSE]
    /\ peer = [c \in Conns |-> "idle"]
    /\ pending = [c \in Conns |-> <<>>]
    /\ wire = [c \in Conns |-> <<>>]
    /\ framed = [c \in Conns |-> <<>>]
    /\ wpc = [c \in Conns |-> "none"]
    /\ w_force_shutdown = [c \in Conns |-> FALSE]
    /\ phase = [c \in Conns |-> "len"]
    /\ chunk_size = [c \in Conns |-> 0]
    /\ chunk = [c \in Conns |-> <<>>]
    /\ pickled_log = [c \in Conns |-> <<>>]
    /\ record = [c \in Conns |-> NoRecord]
    /\ sockOps = [c \in Conns |-> <<>>]
    /\ attempts = [c \in Conns |-> <<>>]
    /\ dispatched = [c \in Conns |-> <<>>]
    /\ iter_forced = [c \in Conns |-> FALSE]

(* ------------------------- the environment ----------------------------- *)

\* A shutdown that flips the forced event each time it is asked to force.
MutShutdownFlips(force) ==
    /\ shutdown_event' = TRUE
    /\ force_shutdown_event' = (force_shutdown_event # force)
    /\ UNCHANGED <<spc, workers, backlog, late, peerVars, wkVars>>

\* A shutdown that stores force in the forced event instead of setting it.
MutShutdownStores(force) ==
    /\ shutdown_event' = TRUE
    /\ force_shutdown_event' = force
    /\ UNCHANGED <<spc, workers, backlog, late, peerVars, wkVars>>

\* LoggingServer.shutdown(force), called from the parent process at any time.
shutdown(force) ==
    /\ shutdown_event' = TRUE
    /\ force_shutdown_event' = (force_shutdown_event \/ force)
    /\ UNCHANGED <<spc, workers, backlog, late, peerVars, wkVars>>

\* The listening socket exists from bind/listen until run() leaves its
\* "with serversocket" block.
Listening == spc \in {"loop", "poll", "reap", "drain", "join"}

\* Peer c connects: the connection waits in the listening socket's queue.
\* Connections are numbered in the order they are made.
PeerConnect(c) ==
    /\ Listening
    /\ peer[c] = "idle"
    /\ IF c = 1 THEN TRUE ELSE peer[c - 1] # "idle"
    /\ peer' = [peer EXCEPT ![c] = "open"]
    /\ backlog' = Append(backlog, c)
    /\ UNCHANGED <<spc, shutdown_event, force_shutdown_event, late, workers,
                   pending, wire, framed, wkVars>>

\* Peer c frames a payload: the length prefix and then the payload.
PeerBeginFrame(c, maxFrames, maxLen) ==
    /\ peer[c] = "open"
    /\ pending[c] = <<>>
    /\ Len(framed[c]) < maxFrames
    /\ \E P \in Payloads(c, maxLen) :
          /\ pending' = [pending EXCEPT ![c] = Pack(Len(P)) \o P]
          /\ framed' = [framed EXCEPT ![c] = Append(@, P)]
    /\ UNCHANGED <<srvVars, peer, wire, wkVars>>

\* The next bytes of the frame reach the server's socket buffer: one byte,
\* or (whole) all that is left of the frame.
PeerSend(c, whole) ==
    /\ peer[c] = "open"
    /\ pending[c] # <<>>
    /\ LET n == IF whole THEN Len(pending[c]) ELSE 1
       IN  /\ wire' = [wire EXCEPT ![c] = @ \o SubSeq(pending[c], 1, n)]
           /\ pending' = [pending EXCEPT ![c] = SubSeq(@, n + 1, Len(@))]
    /\ UNCHANGED <<srvVars, peer, framed, wkVars>>

\* Peer c closes; what it had not sent of its current frame is never sent.
PeerClose(c) ==
    /\ peer[c] = "open"
    /\ peer' = [peer EXCEPT ![c] = "closed"]
    /\ UNCHANGED <<srvVars, pending, wire, framed, wkVars>>

\* The connection breaks: from now on recv and shutdown on it raise OSError.
PeerReset(c) ==
    /\ peer[c] = "open"
    /\ peer' = [peer EXCEPT ![c] = "reset"]
    /\ wire' = [wire EXCEPT ![c] = <<>>]
    /\ UNCHANGED <<srvVars, pending, framed, wkVars>>

\* The frames peer c has sent completely.
CompleteFrames(c) ==
    IF pending[c] = <<>> THEN framed[c] ELSE SubSeq(framed[c], 1, Len(framed[c]) - 1)

(* --------------------------- LoggingServer ----------------------------- *)

InRegistry(c) == \E i \in 1..Len(workers) : workers[i] = c

\* A reap that empties the list as soon as one worker of it has ended.
MutCollectClears ==
    IF \E i \in 1..Len(workers) : Terminated(workers[i]) THEN <<>> ELSE workers

\* The workers of the list that are still alive.
CollectAlive == SelectSeq(workers, is_alive)

\* A run() whose accept loop polls once before it first tests the event.
MutStartPolls ==
    /\ spc = "init"
    /\ spc' = "poll"
    /\ UNCHANGED <<shutdown_event, force_shutdown_event, late, workers, backlog,
                   peerVars, wkVars>>

\* Process.start(): run() binds and listens, then enters its accept loop.
\* (A bind or listen that fails ends run() before any connection exists.)
start ==
    /\ spc = "init"
    /\ spc' = "loop"
    /\ UNCHANGED <<shutdown_event, force_shutdown_event, late, workers, backlog,
                   peerVars, wkVars>>

\* while not self._shutdown_event.is_set():
RunLoopCheck ==
    /\ spc = "loop"
    /\ spc' = IF shutdown_event THEN "drain" ELSE "poll"
    /\ UNCHANGED <<shutdown_event, force_shutdown_event, late, workers, backlog,
                   peerVars, wkVars>>

\* An accept that is also made from the loop that waits for the workers.
MutAcceptInDrain ==
    /\ spc \in {"poll", "drain"}
    /\ backlog # <<>>
    /\ LET c == Head(backlog)
       IN  /\ wpc' = [wpc EXCEPT ![c] = "loop"]
           /\ workers' = Append(workers, c)
           /\ late' = [late EXCEPT ![c] = shutdown_event]
    /\ backlog' = Tail(backlog)
    /\ spc' = IF spc = "poll" THEN "reap" ELSE "drain"
    /\ UNCHANGED <<shutdown_event, force_shutdown_event, peerVars,
                   w_force_shutdown, phase, chunk_size, chunk, pickled_log, record,
                   sockOps, attempts, dispatched, iter_forced>>

\* select() finds a connection; accept it, start its worker, append it.
RunAccept ==
    /\ spc = "poll"
    /\ backlog # <<>>
    /\ LET c == Head(backlog)
       IN  /\ wpc' = [wpc EXCEPT ![c] = "loop"]
           /\ workers' = Append(workers, c)
           /\ late' = [late EXCEPT ![c] = shutdown_event]
    /\ backlog' = Tail(backlog)
    /\ spc' = "reap"
    /\ UNCHANGED <<shutdown_event, force_shutdown_event, peerVars,
                   w_force_shutdown, phase, chunk_size, chunk, pickled_log, record,
                   sockOps, attempts, dispatched, iter_forced>>

\* select() times out.
RunPollTimeout ==
    /\ spc = "poll"
    /\ backlog = <<>>
    /\ spc' = "reap"
    /\ UNCHANGED <<shutdown_event, force_shutdown_event, late, workers, backlog,
                   peerVars, wkVars>>

\* accept() raises OSError: nothing in run() catches it, so run() ends there.
RunAcceptFail ==
    /\ spc = "poll"
    /\ backlog # <<>>
    /\ spc' = "failed"
    /\ UNCHANGED <<shutdown_event, force_shutdown_event, late, workers, backlog,
                   peerVars, wkVars>>

\* join(0) every worker, keep the ones alive (accept loop).
RunReap ==
    /\ spc = "reap"
    /\ workers' = CollectAlive
    /\ spc' = "loop"
    /\ UNCHANGED <<shutdown_event, force_shutdown_event, late, backlog, peerVars, wkVars>>

\* while workers: the list is empty.
RunDrainEmpty ==
    /\ spc = "drain"
    /\ workers = <<>>
    /\ spc' = "join"
    /\ UNCHANGED <<shutdown_event, force_shutdown_event, late, workers, backlog,
                   peerVars, wkVars>>

\* A drain loop that force-stops the workers without waiting to be asked.
MutDrainForceUnasked ==
    /\ spc = "drain"
    /\ workers # <<>>
    /\ w_force_shutdown' = [c \in Conns |-> w_force_shutdown[c] \/ InRegistry(c)]
    /\ spc' = "join"
    /\ UNCHANGED <<shutdown_event, force_shutdown_event, late, workers, backlog, peerVars,
                   wpc, phase, chunk_size, chunk, pickled_log, record,
                   sockOps, attempts, dispatched, iter_forced>>

\* self._force_shutdown_event.wait() is true: force_shutdown() every worker, break.
RunDrainForce ==
    /\ spc = "drain"
    /\ workers # <<>>
    /\ force_shutdown_event
    /\ w_force_shutdown' = [c \in Conns |-> w_force_shutdown[c] \/ InRegistry(c)]
    /\ spc' = "join"
    /\ UNCHANGED <<shutdown_event, force_shutdown_event, late, workers, backlog, peerVars,
                   wpc, phase, chunk_size, chunk, pickled_log, record,
                   sockOps, attempts, dispatched, iter_forced>>

\* the wait times out: join(0) every worker, keep the ones alive.
RunDrainReap ==
    /\ spc = "drain"
    /\ workers # <<>>
    /\ ~force_shutdown_event
    /\ workers' = CollectAlive
    /\ UNCHANGED <<spc, shutdown_event, force_shutdown_event, late, backlog, peerVars, wkVars>>

\* for wk in workers: wk.join()
RunJoin ==
    /\ spc = "join"
    /\ \A i \in 1..Len(workers) : Terminated(workers[i])
    /\ spc' = "done"
    /\ UNCHANGED <<shutdown_event, force_shutdown_event, late, workers, backlog,
                   peerVars, wkVars>>

(* ------------------------ LoggingWorkerThread -------------------------- *)

\* A loop that never looks at the flag.
MutLoopAlways(c) == TRUE

\* while not self._force_shutdown:
LoopContinues(c) == ~w_force_shutdown[c]

\* A read loop that does not look at the flag.
MutRecvIgnoresFlag(c) == Len(chunk[c]) < chunk_size[c]

\* while (not self._force_shutdown) and (len(chunk) < chunk_size):
RecvContinues(c) == ~w_force_shutdown[c] /\ Len(chunk[c]) < chunk_size[c]

\* A recv that takes everything there is, past the end of the frame.
MutRecvCountAll(c) == Len(wire[c])

\* recv(chunk_size - len(chunk)): as many bytes as are there, at most that many.
RecvCount(c) == Min(chunk_size[c] - Len(chunk[c]), Len(wire[c]))

\* A _recv_chunk that returns what it has, however short.
MutRecvChunkShort(ch, size) == ch

\* if len(chunk) == chunk_size: return chunk; return b""
RecvChunkResult(ch, size) == IF Len(ch) = size THEN ch ELSE <<>>

\* An exception that takes every running worker down with the one it is in.
MutRaiseAll(c) ==
    /\ wpc' = [d \in Conns |-> IF d = c \/ is_alive(d) THEN "raised" ELSE wpc[d]]
    /\ sockOps' = [sockOps EXCEPT ![c] = Append(@, "close")]
    /\ phase' = [phase EXCEPT ![c] = "len"]
    /\ chunk_size' = [chunk_size EXCEPT ![c] = 0]
    /\ chunk' = [chunk EXCEPT ![c] = <<>>]
    /\ pickled_log' = [pickled_log EXCEPT ![c] = <<>>]
    /\ record' = [record EXCEPT ![c] = NoRecord]

\* An exception leaves run(): "with self._socket" closes the socket on the
\* way out and the thread ends; _shutdown_socket() is not reached.
Raise(c) ==
    /\ wpc' = [wpc EXCEPT ![c] = "raised"]
    /\ sockOps' = [sockOps EXCEPT ![c] = Append(@, "close")]
    /\ phase' = [phase EXCEPT ![c] = "len"]
    /\ chunk_size' = [chunk_size EXCEPT ![c] = 0]
    /\ chunk' = [chunk EXCEPT ![c] = <<>>]
    /\ pickled_log' = [pickled_log EXCEPT ![c] = <<>>]
    /\ record' = [record EXCEPT ![c] = NoRecord]

\* break: leave the while loop of run() for _shutdown_socket().
Break(c) ==
    /\ wpc' = [wpc EXCEPT ![c] = "shutdown"]
    /\ phase' = [phase EXCEPT ![c] = "len"]
    /\ chunk_size' = [chunk_size EXCEPT ![c] = 0]
    /\ chunk' = [chunk EXCEPT ![c] = <<>>]
    /\ pickled_log' = [pickled_log EXCEPT ![c] = <<>>]

\* _recv_chunk returns result to run(): after the length prefix, unpack it and
\* read the payload; after the payload, go on to _makeLogRecord; an empty
\* result breaks the loop either time.
Return(c, result) ==
    IF Len(result) = 0
    THEN Break(c)
    ELSE IF phase[c] = "len"
    THEN /\ wpc' = [wpc EXCEPT ![c] = "recv"]
         /\ phase' = [phase EXCEPT ![c] = "payload"]
         /\ chunk_size' = [chunk_size EXCEPT ![c] = Unpack(result)]
         /\ chunk' = [chunk EXCEPT ![c] = <<>>]
         /\ UNCHANGED pickled_log
    ELSE /\ wpc' = [wpc EXCEPT ![c] = "deser"]
         /\ phase' = [phase EXCEPT ![c] = "len"]
         /\ chunk_size' = [chunk_size EXCEPT ![c] = 0]
         /\ chunk' = [chunk EXCEPT ![c] = <<>>]
         /\ pickled_log' = [pickled_log EXCEPT ![c] = result]

\* The top of run()'s loop: leave it when forced, else call _recv_chunk(4).
WorkerLoop(c) ==
    /\ wpc[c] = "loop"
    /\ IF LoopContinues(c)
       THEN /\ wpc' = [wpc EXCEPT ![c] = "recv"]
            /\ phase' = [phase EXCEPT ![c] = "len"]
            /\ chunk_size' = [chunk_size EXCEPT ![c] = LenBytes]
            /\ chunk' = [chunk EXCEPT ![c] = <<>>]
            /\ iter_forced' = [iter_forced EXCEPT ![c] = w_force_shutdown[c]]
       ELSE /\ wpc' = [wpc EXCEPT ![c] = "shutdown"]
            /\ UNCHANGED <<phase, chunk_size, chunk, iter_forced>>
    /\ UNCHANGED <<srvVars, peerVars, w_force_shutdown, pickled_log, record,
                   sockOps, attempts, dispatched>>

\* The condition of _recv_chunk's loop: go on to select(), or return.
WorkerRecvCheck(c) ==
    /\ wpc[c] = "recv"
    /\ IF RecvContinues(c)
       THEN /\ wpc' = [wpc EXCEPT ![c] = "select"]
            /\ UNCHANGED <<phase, chunk_size, chunk, pickled_log>>
       ELSE Return(c, RecvChunkResult(chunk[c], chunk_size[c]))
    /\ UNCHANGED <<srvVars, peerVars, w_force_shutdown, record,
                   sockOps, attempts, dispatched, iter_forced>>

\* A recv() on whichever connection has data, not on the worker's own socket.
MutRecvAnySocket(c) ==
    /\ wpc[c] = "select"
    /\ \E d \in Conns :
          /\ peer[d] # "reset"
          /\ wire[d] # <<>>
          /\ LET k == Min(chunk_size[c] - Len(chunk[c]), Len(wire[d]))
             IN  /\ chunk' = [chunk EXCEPT ![c] = @ \o SubSeq(wire[d], 1, k)]
                 /\ wire' = [wire EXCEPT ![d] = SubSeq(@, k + 1, Len(@))]
    /\ wpc' = [wpc EXCEPT ![c] = "recv"]
    /\ UNCHANGED <<srvVars, peer, pending, framed, w_force_shutdown, phase,
                   chunk_size, pickled_log, record, sockOps, attempts, dispatched, iter_forced>>

\* select() says readable and recv() returns data.
WorkerRecvData(c) ==
    /\ wpc[c] = "select"
    /\ peer[c] # "reset"
    /\ wire[c] # <<>>
    /\ LET k == RecvCount(c)
       IN  /\ chunk' = [chunk EXCEPT ![c] = @ \o SubSeq(wire[c], 1, k)]
           /\ wire' = [wire EXCEPT ![c] = SubSeq(@, k + 1, Len(@))]
    /\ wpc' = [wpc EXCEPT ![c] = "recv"]
    /\ UNCHANGED <<srvVars, peer, pending, framed, w_force_shutdown, phase,
                   chunk_size, pickled_log, record, sockOps, attempts, dispatched, iter_forced>>

\* select() says readable and recv() returns b"": the peer has closed. break,
\* and _recv_chunk returns.
WorkerRecvEof(c) ==
    /\ wpc[c] = "select"
    /\ peer[c] = "closed"
    /\ wire[c] = <<>>
    /\ Return(c, RecvChunkResult(chunk[c], chunk_size[c]))
    /\ UNCHANGED <<srvVars, peerVars, w_force_shutdown, record,
                   sockOps, attempts, dispatched, iter_forced>>

\* select() times out: back to the loop condition.
WorkerRecvTimeout(c) ==
    /\ wpc[c] = "select"
    /\ peer[c] = "open"
    /\ wire[c] = <<>>
    /\ wpc' = [wpc EXCEPT ![c] = "recv"]
    /\ UNCHANGED <<srvVars, peerVars, w_force_shutdown, phase, chunk_size, chunk,
                   pickled_log, record, sockOps, attempts, dispatched, iter_forced>>

\* recv() raises OSError on the broken connection.
WorkerRecvError(c) ==
    /\ wpc[c] = "select"
    /\ peer[c] = "reset"
    /\ Raise(c)
    /\ UNCHANGED <<srvVars, peerVars, w_force_shutdown, attempts, dispatched, iter_forced>>

\* record = self._makeLogRecord(pickled_log): pickle.loads may raise.
WorkerMakeLogRecord(c) ==
    /\ wpc[c] = "deser"
    /\ attempts' = [attempts EXCEPT ![c] = Append(@, pickled_log[c])]
    /\ IF Unpicklable(pickled_log[c])
       THEN /\ record' = [record EXCEPT ![c] = makeLogRecord(pickled_log[c])]
            /\ pickled_log' = [pickled_log EXCEPT ![c] = <<>>]
            /\ wpc' = [wpc EXCEPT ![c] = "handle"]
            /\ UNCHANGED <<phase, chunk_size, chunk, sockOps>>
       ELSE Raise(c)
    /\ UNCHANGED <<srvVars, peerVars, w_force_shutdown, dispatched, iter_forced>>

\* self._handleLogRecord(record), then back to the top of the loop.
WorkerHandleLogRecord(c) ==
    /\ wpc[c] = "handle"
    /\ dispatched' = [dispatched EXCEPT ![c] = Append(@, record[c])]
    /\ record' = [record EXCEPT ![c] = NoRecord]
    /\ wpc' = [wpc EXCEPT ![c] = "loop"]
    /\ UNCHANGED <<srvVars, peerVars, w_force_shutdown, phase, chunk_size, chunk,
                   pickled_log, sockOps, attempts, iter_forced>>

\* A worker that takes itself off the listener's list when it ends.
MutShutdownDeregisters(c) ==
    /\ wpc[c] = "shutdown"
    /\ IF peer[c] = "reset"
       THEN Raise(c)
       ELSE /\ sockOps' = [sockOps EXCEPT ![c] = @ \o <<"shutdown", "close">>]
            /\ wpc' = [wpc EXCEPT ![c] = "done"]
            /\ UNCHANGED <<phase, chunk_size, chunk, pickled_log, record>>
    /\ workers' = SelectSeq(workers, LAMBDA w : w # c)
    /\ UNCHANGED <<spc, shutdown_event, force_shutdown_event, backlog, late, peerVars,
                   w_force_shutdown, attempts, dispatched, iter_forced>>

\* self._shutdown_socket(), then the "with" block closes the socket and the
\* thread ends. socket.shutdown raises OSError on a broken connection.
WorkerShutdownSocket(c) ==
    /\ wpc[c] = "shutdown"
    /\ IF peer[c] = "reset"
       THEN Raise(c)
       ELSE /\ sockOps' = [sockOps EXCEPT ![c] = @ \o <<"shutdown", "close">>]
            /\ wpc' = [wpc EXCEPT ![c] = "done"]
            /\ UNCHANGED <<phase, chunk_size, chunk, pickled_log, record>>
    /\ UNCHANGED <<srvVars, peerVars, w_force_shutdown, attempts, dispatched, iter_forced>>

(* --------------------------- specifications ---------------------------- *)

Listener ==
    \/ start
    \/ RunLoopCheck
    \/ RunAccept
    \/ RunPollTimeout
    \/ RunReap
    \/ RunDrainEmpty
    \/ RunDrainForce
    \/ RunDrainReap
    \/ RunJoin

Worker(c) ==
    \/ WorkerLoop(c)
    \/ WorkerRecvCheck(c)
    \/ WorkerRecvData(c)
    \/ WorkerRecvEof(c)
    \/ WorkerRecvTimeout(c)
    \/ WorkerRecvError(c)
    \/ WorkerMakeLogRecord(c)
    \/ WorkerHandleLogRecord(c)
    \/ WorkerShutdownSocket(c)

Peer(c, maxFrames, maxLen, whole) ==
    \/ PeerConnect(c)
    \/ PeerBeginFrame(c, maxFrames, maxLen)
    \/ PeerSend(c, whole)
    \/ PeerClose(c)
    \/ PeerReset(c)

\* The server with up to NumConns connections; a frame arrives in one piece.
Next ==
    \/ Listener
    \/ RunAcceptFail
    \/ \E force \in BOOLEAN : shutdown(force)
    \/ \E c \in Conns : Worker(c)
    \/ \E c \in Conns : Peer(c, SrvFrames, SrvLen, TRUE)

Spec == Init /\ [][Next]_vars

\* The server with one connection, which carries more and longer frames
\* that arrive byte by byte.
ConnNext ==
    \/ Listener
    \/ RunAcceptFail
    \/ \E force \in BOOLEAN : shutdown(force)
    \/ Worker(1)
    \/ Peer(1, MaxFrames, MaxLen, FALSE)

ConnSpec == Init /\ [][ConnNext]_vars

\* The server while it accepts (nobody calls shutdown), with up to NumConns
\* connections whose frames arrive byte by byte.
PairNext ==
    \/ start
    \/ RunLoopCheck
    \/ RunAccept
    \/ RunPollTimeout
    \/ RunReap
    \/ \E c \in Conns : Worker(c)
    \/ \E c \in Conns : Peer(c, SrvFrames, SrvLen, FALSE)

PairSpec == Init /\ [][PairNext]_vars

(* ------------------------------ claims --------------------------------- *)

\* Every payload of the sequence is one pickle.loads accepts.
AllUnpicklable(frames) == \A i \in 1..Len(frames) : Unpicklable(frames[i])

\* recs are the records of the payloads frames, one for one and in order.
RecordsOf(recs, frames) ==
    /\ Len(recs) = Len(frames)
    /\ \A i \in 1..Len(recs) : Unpicklable(frames[i]) /\ recs[i] = makeLogRecord(frames[i])

\* The peer of c has closed, the worker of c has ended, and nobody forced it.
EndedOnClose(c) == Terminated(c) /\ peer[c] = "closed" /\ ~w_force_shutdown[c]

\* C1: a connection that carried one complete frame the deserializer rejects
\* and then one complete well-formed frame, and was then closed, has had
\* exactly one record dispatched, the well-formed frame's.
C1_FailureIsolation ==
    \A c \in Conns :
        ( /\ EndedOnClose(c)
          /\ pending[c] = <<>>
          /\ Len(framed[c]) = 2
          /\ framed[c][1] # <<>>
          /\ ~Unpicklable(framed[c][1])
          /\ Unpicklable(framed[c][2]) )
        => dispatched[c] = << makeLogRecord(framed[c][2]) >>

\* C2: every complete frame delivered on a connection, whatever its payload
\* (the empty one included), gets exactly one deserialization attempt, on
\* exactly its payload, and the worker goes on to the next frame: when the
\* connection has been closed and the worker has ended, the attempts are the
\* payloads of the complete frames, in order.
C2_FramingRoundTrip ==
    \A c \in Conns : EndedOnClose(c) => attempts[c] = CompleteFrames(c)

\* C3: the records dispatched for a connection are at every moment those of
\* the first frames sent on it, in order, none twice and none left out; and
\* when N frames (of payloads the deserializer accepts) were sent and the
\* connection was then closed, the N records have been dispatched.
C3_OrderPreserved ==
    \A c \in Conns :
        /\ Len(dispatched[c]) <= Len(framed[c])
        /\ RecordsOf(dispatched[c], SubSeq(framed[c], 1, Len(dispatched[c])))
        /\ ( /\ EndedOnClose(c)
             /\ pending[c] = <<>>
             /\ AllUnpicklable(framed[c]) )
           => RecordsOf(dispatched[c], framed[c])

\* C3's case: two frames were sent, the connection closed, both dispatched.
C3_Witness ==
    \E c \in Conns :
        /\ EndedOnClose(c)
        /\ pending[c] = <<>>
        /\ Len(framed[c]) = 2
        /\ AllUnpicklable(framed[c])
        /\ Len(dispatched[c]) = 2

\* The listener and every worker keep running while they can take a step;
\* nothing is assumed of the peers, of shutdown()'s caller or of accept().
FairSpec ==
    /\ Spec
    /\ WF_vars(Listener)
    /\ \A c \in Conns : WF_vars(Worker(c))

\* The worker of c was started.
Spawned(c) == wpc[c] # "none"

\* The worker of c has ended and its socket is closed.
Released(c) ==
    /\ Terminated(c)
    /\ sockOps[c] # <<>>
    /\ sockOps[c][Len(sockOps[c])] = "close"

\* run() has ended, by returning or by an exception.
RunEnded == spc \in {"done", "failed"}

\* C4: once the server is started and shutdown(force=True) has been called,
\* run() eventually ends with every worker that was started ended and its
\* socket closed, whatever the peers do.
C4_ForcedShutdownUnblocks ==
    (spc # "init" /\ force_shutdown_event)
        ~> (RunEnded /\ \A c \in Conns : Spawned(c) => Released(c))

\* C5: after shutdown(force=False), and as long as the forced event is not
\* set, no worker's _force_shutdown is set, the worker of a connection that
\* was accepted before the call ends only once its peer has closed (or the
\* connection broke), and run() returns only with an empty list of workers.
C5_GracefulShutdown ==
    [][ (shutdown_event /\ ~force_shutdown_event') =>
            /\ \A c \in Conns : ~w_force_shutdown'[c]
            /\ \A c \in Conns :
                  (is_alive(c) /\ ~late[c] /\ Terminated(c)')
                      => peer[c] \in {"closed", "reset"}
            /\ spc' = "done" => workers' = <<>> ]_vars

\* C6 as stated: while the forced event is set, no worker starts another
\* iteration of its loop (a new read of a length prefix).
C6_ForcedStopsReads ==
    [][ force_shutdown_event =>
            \A c \in Conns : ~(wpc[c] = "loop" /\ wpc'[c] = "recv") ]_vars

\* C6, amended: while a worker's own _force_shutdown is set, that worker
\* starts no other iteration of its loop, and no record is dispatched from
\* an iteration that began with the flag set.
C6_OwnFlagStopsReads ==
    [][ \A c \in Conns :
            /\ w_force_shutdown[c] => ~(wpc[c] = "loop" /\ wpc'[c] = "recv")
            /\ dispatched'[c] # dispatched[c] => ~iter_forced[c] ]_vars

\* C6's case: a worker whose peer is still open, and has sent one whole
\* well-formed frame and nothing since, dispatched it, found its flag set
\* and left its loop for _shutdown_socket().
C6_Witness ==
    \E c \in Conns :
        /\ w_force_shutdown[c]
        /\ wpc[c] = "shutdown"
        /\ peer[c] = "open"
        /\ Len(framed[c]) = 1
        /\ pending[c] = <<>>
        /\ wire[c] = <<>>
        /\ Len(dispatched[c]) = 1

\* C7: when run() has ended, on whichever path, every worker that was ever
\* started has ended and its socket is closed.
C7_NoExitWhileWorkerRuns ==
    RunEnded => \A c \in Conns : Spawned(c) => Released(c)

\* C8: a worker that has ended, on whichever path it left its loop, has shut
\* its socket down and then closed it, once each.
C8_SocketRelease ==
    \A c \in Conns : Terminated(c) => sockOps[c] = <<"shutdown", "close">>

\* C9: when the peer closed in the middle of a frame (part of the prefix,
\* the prefix alone, or part of the payload), the worker ends without an
\* exception, having attempted and dispatched exactly the complete frames
\* sent before it and nothing of the incomplete one.
C9_TruncatedFrameSafe ==
    \A c \in Conns :
        ( /\ EndedOnClose(c)
          /\ pending[c] # <<>>
          /\ AllUnpicklable(CompleteFrames(c)) )
        => /\ wpc[c] = "done"
           /\ attempts[c] = CompleteFrames(c)
           /\ RecordsOf(dispatched[c], CompleteFrames(c))

\* C9's case: after one whole frame, the peer sent a prefix announcing two
\* bytes and one byte of payload, and closed; the worker has ended.
C9_Witness ==
    \E c \in Conns :
        /\ EndedOnClose(c)
        /\ Len(framed[c]) = 2
        /\ Len(framed[c][2]) = 2
        /\ Len(pending[c]) = 1
        /\ wire[c] = <<>>
        /\ Len(dispatched[c]) = 1

\* C10: run() ends only out of its final join of every worker of the list:
\* a failure in the accept loop goes on to the drain/stop sequence.
C10_AcceptErrorDrains ==
    [][ (~RunEnded /\ RunEnded') => spc = "join" ]_vars

\* The listener's phases: RUNNING is the accept loop, DRAINING the loop that
\* waits for the workers, STOPPED the final joins and the return of run().
Running == spc \in {"loop", "poll", "reap"}
Draining == spc = "drain"
Stopped == spc \in {"join", "done"}

\* This step is a failure inside the worker of c: an exception leaves its
\* run() (pickle.loads or a socket call raised), or its read ends on a peer
\* that closed in the middle of a frame.
FailsIn(c) ==
    \/ wpc[c] # "raised" /\ wpc'[c] = "raised"
    \/ /\ wpc[c] = "select"
       /\ wpc'[c] = "shutdown"
       /\ Len(chunk[c]) < chunk_size[c]
       /\ (chunk[c] # <<>> \/ phase[c] = "payload")

\* Everything of the worker of d and of its connection.
WorkerState(d) ==
    << wpc[d], w_force_shutdown[d], phase[d], chunk_size[d], chunk[d],
       pickled_log[d], record[d], sockOps[d], attempts[d], dispatched[d],
       iter_forced[d], peer[d], pending[d], wire[d], framed[d] >>

RecordBytes(r) == {r.name} \cup {r.msg[j] : j \in 1..Len(r.msg)}

\* The payload bytes peer d has framed so far.
SentBytes(d) == UNION { {framed[d][i][j] : j \in 1..Len(framed[d][i])} : i \in 1..Len(framed[d]) }

PhaseRank ==
    IF spc = "init" THEN 0 ELSE IF Running THEN 1 ELSE IF Draining THEN 2 ELSE 3

\* Connection c waits in the listening socket's queue.
InBacklog(c) == \E i \in 1..Len(backlog) : backlog[i] = c

\* C13: the listener never moves back to an earlier phase, and from the
\* moment it is DRAINING or beyond it accepts nothing: no connection leaves
\* the listening socket's queue, no worker is started and none is added to
\* the list; so a connection that waits in the queue then (one that arrived
\* after RUNNING was left does) never gets a worker, a deserialization
\* attempt or a dispatched record.
C13_PhaseForwardNoLateAccept ==
    [][ /\ PhaseRank' >= PhaseRank
        /\ PhaseRank >= 2 =>
              /\ \A c \in Conns : InBacklog(c) => InBacklog(c)'
              /\ \A c \in Conns : ~Spawned(c) => ~Spawned(c)'
              /\ \A c \in Conns : InRegistry(c)' => InRegistry(c)
              /\ Len(workers') <= Len(workers)
        /\ \A c \in Conns :
              ~Spawned(c)' => attempts'[c] = <<>> /\ dispatched'[c] = <<>> ]_vars

\* C13's case: run() has returned; a peer that connected and sent a whole
\* frame still waits in the queue, without a worker.
C13_Witness ==
    \E c \in Conns :
        /\ spc = "done"
        /\ InBacklog(c)
        /\ ~Spawned(c)
        /\ peer[c] = "open"
        /\ Len(framed[c]) = 1
        /\ pending[c] = <<>>
        /\ wire[c] # <<>>

\* C14: no step of the server, of a worker, or of a caller of shutdown()
\* clears a shutdown signal: the graceful event, the forced event and each
\* worker's own _force_shutdown, once set, are set in the next state too.
C14_SignalsMonotonic ==
    [][ /\ shutdown_event => shutdown_event'
        /\ force_shutdown_event => force_shutdown_event'
        /\ \A c \in Conns : w_force_shutdown[c] => w_force_shutdown'[c] ]_vars

\* C14's case: all three signals were set and the worker and run() have
\* since gone on to their ends.
C14_Witness ==
    \E c \in Conns :
        /\ shutdown_event
        /\ force_shutdown_event
        /\ w_force_shutdown[c]
        /\ wpc[c] = "done"
        /\ spc = "done"

\* shutdown(force) has been called before: the state any such call leaves.
AlreadyCalled(force) == shutdown_event /\ (force => force_shutdown_event)

\* C15: a call of shutdown(force) leaves the graceful event set and, when
\* force is true, the forced event set; a call of shutdown(force) in a state
\* a call of shutdown(force) has left (the second of two calls in a row, or
\* any later repetition) changes neither event; and a call of
\* shutdown(force=False) when the forced event is set leaves it set.
C15_ShutdownIdempotent ==
    [][ \A force \in BOOLEAN :
            shutdown(force) =>
                /\ AlreadyCalled(force)'
                /\ AlreadyCalled(force) =>
                      /\ shutdown_event' = shutdown_event
                      /\ force_shutdown_event' = force_shutdown_event
                /\ (force_shutdown_event /\ ~force) => force_shutdown_event' ]_vars

\* C15's case: shutdown(force=True) was called on a server that accepts and
\* has a running worker; every further call finds both events set.
C15_Witness ==
    \E c \in Conns :
        /\ shutdown_event
        /\ force_shutdown_event
        /\ spc = "poll"
        /\ is_alive(c)

\* The one-connection server, where the listener (start() included) and the
\* worker keep running while they can take a step; nothing is assumed of
\* the peer or of shutdown()'s caller.
FairConnSpec ==
    /\ ConnSpec
    /\ WF_vars(Listener)
    /\ WF_vars(Worker(1))

\* shutdown() was called and start() has not been yet.
ShutdownBeforeStart == spc = "init" /\ shutdown_event

\* No connection was ever accepted: every peer that connected waits in the
\* queue, no worker was started and the list of workers is empty.
NothingAccepted ==
    /\ workers = <<>>
    /\ \A c \in Conns : ~Spawned(c) /\ (peer[c] # "idle" => InBacklog(c))

\* C16: when shutdown() (with either force value) was called before
\* start(), then from start() on no connection is ever accepted and no
\* worker ever started, and run() eventually returns, with no other call.
C16_ShutdownBeforeStart ==
    /\ [](ShutdownBeforeStart => []NothingAccepted)
    /\ ShutdownBeforeStart ~> (spc = "done")

\* C16's case: shutdown(force=False) was called on a server not yet started.
C16_Witness ==
    /\ spc = "init"
    /\ shutdown_event
    /\ ~force_shutdown_event

\* The worker of c is inside a call of _recv_chunk.
InCall(c) == wpc[c] \in {"recv", "select"}

\* This step is a step of the worker of c inside _recv_chunk.
CallStep(c) == InCall(c) /\ (wpc'[c] # wpc[c] \/ phase'[c] # phase[c])

\* This step is the return of _recv_chunk to run() (not an exception).
Returns(c) ==
    /\ InCall(c)
    /\ wpc'[c] # "raised"
    /\ wpc'[c] \notin {"recv", "select"} \/ phase'[c] # phase[c]

\* This step takes bytes from the socket of c.
Receives(c) == peer'[c] = peer[c] /\ Len(wire'[c]) < Len(wire[c])

\* C17: a call _recv_chunk(n), for the n = 4 of a prefix and for every
\* payload length n (0 included):
\*  - is the only taker of bytes from the socket, takes the next bytes of
\*    the stream, appends them in order to what it has accumulated, and
\*    never holds more than n;
\*  - returns to run() either the n bytes accumulated (run() unpacks them as
\*    the length, or takes them as the payload) or the empty result, on
\*    which run() leaves its loop and the accumulated bytes are dropped;
\*  - returns the empty result with fewer than n bytes only because its flag
\*    is set or the peer has closed, and does return it as soon as its loop
\*    test finds the flag set, or a recv finds the peer closed, with fewer
\*    than n bytes accumulated.
C17_RecvChunkContract ==
    [][ \A c \in Conns :
          /\ InCall(c)' => Len(chunk'[c]) <= chunk_size'[c]
          /\ Receives(c) =>
                /\ InCall(c)
                /\ wire[c] = SubSeq(chunk'[c], Len(chunk[c]) + 1, Len(chunk'[c])) \o wire'[c]
                /\ SubSeq(chunk'[c], 1, Len(chunk[c])) = chunk[c]
          /\ Returns(c) =>
                IF Len(chunk[c]) = chunk_size[c] /\ chunk_size[c] > 0
                THEN IF phase[c] = "len"
                     THEN /\ wpc'[c] = "recv"
                          /\ phase'[c] = "payload"
                          /\ chunk_size'[c] = Unpack(chunk[c])
                     ELSE /\ wpc'[c] = "deser"
                          /\ pickled_log'[c] = chunk[c]
                ELSE /\ wpc'[c] = "shutdown"
                     /\ chunk'[c] = <<>>
                     /\ pickled_log'[c] = <<>>
                     /\ Len(chunk[c]) < chunk_size[c] =>
                           \/ w_force_shutdown[c]
                           \/ peer[c] = "closed" /\ wire[c] = <<>>
          /\ ( /\ CallStep(c)
               /\ Len(chunk[c]) < chunk_size[c]
               /\ \/ wpc[c] = "recv" /\ w_force_shutdown[c]
                  \/ wpc[c] = "select" /\ peer[c] = "closed" /\ wire[c] = <<>> )
             => wpc'[c] = "shutdown" /\ chunk'[c] = <<>> ]_vars

\* C17's case: the peer sent a prefix announcing two bytes and one of the
\* two; the worker had read them when it found its flag set, and has left
\* its loop with no deserialization attempt made.
C17_Witness ==
    \E c \in Conns :
        /\ w_force_shutdown[c]
        /\ wpc[c] = "shutdown"
        /\ peer[c] = "open"
        /\ Len(framed[c]) = 1
        /\ Len(framed[c][1]) = 2
        /\ Len(pending[c]) = 1
        /\ wire[c] = <<>>
        /\ attempts[c] = <<>>

\* C18: the list of workers changes only in a step of the listener: its
\* accept, or one of its two reaps. No step of a worker (a read, a
\* deserialization, a dispatch, leaving its loop, releasing its socket,
\* ending by an exception) and no call of shutdown() changes it; a worker
\* is on the list the moment it ends, and once ended leaves the list only
\* by a reap of the listener.
C18_RegistryOnlyListener ==
    [][ /\ workers' # workers =>
              /\ RunAccept \/ RunReap \/ RunDrainReap
              /\ ~ \E c \in Conns : Worker(c)
              /\ ~ \E force \in BOOLEAN : shutdown(force)
        /\ \A c \in Conns :
              /\ (is_alive(c) /\ Terminated(c)') => (InRegistry(c) /\ InRegistry(c)')
              /\ (InRegistry(c) /\ ~InRegistry(c)') =>
                    (Terminated(c) /\ (RunReap \/ RunDrainReap)) ]_vars

\* C18's case: the worker has ended and shutdown() was called, and the
\* worker is still on the list of the listener, which has yet to reap.
C18_Witness ==
    \E c \in Conns :
        /\ wpc[c] = "done"
        /\ shutdown_event
        /\ InRegistry(c)
        /\ spc = "poll"

\* C19: while the listener is RUNNING or DRAINING, every worker that was
\* started and has not ended is on its list; and a reap (in the accept loop
\* or in the drain loop) takes off the list exactly the workers of it that
\* have ended, leaving the others in their order.
C19_ReapKeepsLiveWorkers ==
    [][ /\ (Running' \/ Draining') =>
              \A c \in Conns : is_alive(c)' => InRegistry(c)'
        /\ (RunReap \/ RunDrainReap) =>
              workers' = SelectSeq(workers, LAMBDA w : ~Terminated(w)) ]_vars

\* C19's case: the worker of connection 1 has ended and been reaped; the
\* worker of connection 2 is running and is on the list of the listener,
\* which is about to test its loop again.
C19_Witness ==
    /\ Terminated(1)
    /\ ~InRegistry(1)
    /\ is_alive(2)
    /\ workers = <<2>>
    /\ spc = "loop"

\* C20: in every reachable state, whatever calls of shutdown() and steps of
\* the listener and of the workers led to it, the forced event is set only
\* if the graceful event is, and a worker's own _force_shutdown is set only
\* if the forced event is.
C20_ForcedImpliesGraceful ==
    /\ force_shutdown_event => shutdown_event
    /\ \A c \in Conns : w_force_shutdown[c] => force_shutdown_event

\* C20's case: shutdown(force=True) was called and the listener has set the
\* flag of a worker that is still running.
C20_Witness ==
    \E c \in Conns :
        /\ w_force_shutdown[c]
        /\ is_alive(c)
        /\ spc = "join"

====
